---- MODULE Spec2Model ----
(***************************************************************************)
(* State-machine model of the AWS Lambda log TUI: the navigation loop of   *)
(* src/main.rs (struct App and the key handlers of main) and the log       *)
(* browser of src/app_state/log_viewer.rs (struct LogViewer).              *)
(*                                                                         *)
(* Text is modelled as sequences of one-character strings over the         *)
(* alphabet "a" "A" "b" "B" "1" " " "\n".  Option<T> is modelled as a      *)
(* sequence of length 0 (None) or 1 (Some).  Indices are 0-based as in the *)
(* source; sequences are indexed with +1.                                  *)
(***************************************************************************)
EXTENDS Integers, Sequences, FiniteSets, TLC

----------------------------------------------------------------------------
(* Bounds of the model *)

\* usize is modelled UsizeBits wide (wrapping and panics depend on the width only
\* through the modulus).
UsizeBits == 16
\* Largest terminal height (rows) the size query can report.
MaxHeight == 10
\* Longest filter text typed into the log viewer.
MaxFilterLen == 3
\* Longest filter text typed into the function list.
MaxFnFilterLen == 1
\* Dates range over 0..MaxDate.
MaxDate == 1
\* Largest viewport height get_visible_range is asked about, next to the heights
\* the key handlers compute.
MaxRangeHeight == 4
\* Most keys typed while main is suspended in a fetch.
MaxTypeAhead == 2
\* The rows of the terminal that is never resized: visible height FixedHeight - 8.
FixedHeight == 9
\* Content offsets above this are not explored.
MaxScrollPosition == 10

USIZE_MAX == 2^UsizeBits - 1

----------------------------------------------------------------------------
(* Option<T> *)

None == <<>>
Some(x) == <<x>>
IsSome(o) == Len(o) = 1
IsNone(o) == Len(o) = 0
Unwrap(o) == o[1]

----------------------------------------------------------------------------
(* usize arithmetic *)

Min(a, b) == IF a <= b THEN a ELSE b
Max(a, b) == IF a >= b THEN a ELSE b
\* usize::saturating_sub
SaturatingSub(a, b) == IF a >= b THEN a - b ELSE 0
\* usize::saturating_add
SaturatingAdd(a, b) == Min(a + b, USIZE_MAX)
\* a + b and a - b without overflow checks (release build): wrapping
WrappingAdd(a, b) == (a + b) % (USIZE_MAX + 1)
WrappingSub(a, b) == (a - b + USIZE_MAX + 1) % (USIZE_MAX + 1)
AddOverflows(a, b) == a + b > USIZE_MAX
SubOverflows(a, b) == a < b

----------------------------------------------------------------------------
(* Text *)

\* char::to_lowercase on the model's alphabet
ToLowerChar(c) == CASE c = "A" -> "a" [] c = "B" -> "b" [] OTHER -> c
\* str::to_lowercase
ToLowercase(s) == [i \in 1..Len(s) |-> ToLowerChar(s[i])]
\* char::is_whitespace
IsWhitespace(c) == c \in {" ", "\n"}

\* str::split_whitespace: the maximal runs of non-whitespace, left to right.
\* cur is the run being read.
RECURSIVE SplitFrom(_, _, _)
SplitFrom(s, i, cur) ==
    IF i > Len(s) THEN (IF cur = <<>> THEN <<>> ELSE <<cur>>)
    ELSE IF IsWhitespace(s[i])
         THEN (IF cur = <<>> THEN <<>> ELSE <<cur>>) \o SplitFrom(s, i + 1, <<>>)
         ELSE SplitFrom(s, i + 1, Append(cur, s[i]))
SplitWhitespace(s) == SplitFrom(s, 1, <<>>)

\* str::contains(&str)
Contains(hay, needle) ==
    \E i \in 0..(Len(hay) - Len(needle)) :
        \A j \in 1..Len(needle) : hay[i + j] = needle[j]

\* str::lines().count(): lines end at "\n"; a final line without "\n" counts,
\* an empty tail after the last "\n" does not.
LinesCount(s) ==
    Cardinality({i \in 1..Len(s) : s[i] = "\n"})
    + (IF Len(s) > 0 /\ s[Len(s)] # "\n" THEN 1 ELSE 0)

\* serde_json::from_str::<Value>(message).is_ok() on the model's alphabet: the only
\* JSON documents writable with it are the numbers 1, 11, 111, ... with optional
\* surrounding whitespace.
IsJson(s) ==
    \E i \in 1..Len(s) : \E j \in i..Len(s) :
        /\ \A k \in 1..Len(s) :
              IF k >= i /\ k <= j THEN s[k] = "1" ELSE IsWhitespace(s[k])

\* format_json(&value, 0).len(): a scalar document is printed on one line.
FormatJsonLen(s) == 1

\* line_count of scroll_down / page_down
LineCount(message) ==
    IF IsJson(message) THEN FormatJsonLen(message) ELSE LinesCount(message)

----------------------------------------------------------------------------
(* LogViewer (src/app_state/log_viewer.rs) *)

\* LogViewer::new
LogViewerNew(function_name, from_date, to_date) ==
    [ function_name     |-> function_name,
      from_date         |-> from_date,
      to_date           |-> to_date,
      logs              |-> <<>>,
      filtered_logs     |-> <<>>,
      filter_input      |-> <<>>,
      scroll_offset     |-> 0,
      selected_log      |-> None,
      expanded          |-> FALSE,
      cloudwatch_client |-> None,
      scroll_position   |-> 0,
      start_index       |-> 0 ]

\* Variant of AllKeywordsIn: one keyword found is enough (OR for AND)
RECURSIVE AnyKeywordIn(_, _, _)
AnyKeywordIn(keywords, k, message_lower) ==
    IF k > Len(keywords) THEN FALSE
    ELSE IF Contains(message_lower, keywords[k])
         THEN TRUE
         ELSE AnyKeywordIn(keywords, k + 1, message_lower)

\* The closure of update_filter's .filter(): a message is kept iff it contains
\* every keyword, tried in order (Iterator::all).
RECURSIVE AllKeywordsIn(_, _, _)
AllKeywordsIn(keywords, k, message_lower) ==
    IF k > Len(keywords) THEN TRUE
    ELSE IF Contains(message_lower, keywords[k])
         THEN AllKeywordsIn(keywords, k + 1, message_lower)
         ELSE FALSE

LogMatches(log, keywords) ==
    IF IsSome(log.message)
    THEN AllKeywordsIn(keywords, 1, ToLowercase(Unwrap(log.message)))
    ELSE FALSE

\* logs.iter().filter(..).cloned().collect()
RECURSIVE FilterLogs(_, _, _)
FilterLogs(logs, i, keywords) ==
    IF i > Len(logs) THEN <<>>
    ELSE (IF LogMatches(logs[i], keywords) THEN <<logs[i]>> ELSE <<>>)
         \o FilterLogs(logs, i + 1, keywords)

\* The filtered_logs computed by update_filter
ComputeFiltered(logs, filter_input) ==
    IF filter_input = <<>>
    THEN logs
    ELSE FilterLogs(logs, 1, SplitWhitespace(ToLowercase(filter_input)))

\* The selection update_filter leaves
ResetSelection(filtered_logs) ==
    IF filtered_logs = <<>> THEN None ELSE Some(0)

\* Variant of UpdateFilter: a cursor still inside the new view is kept
UpdateFilterKeepsCursor(lv) ==
    LET filtered == ComputeFiltered(lv.logs, lv.filter_input)
    IN  [lv EXCEPT !.filtered_logs = filtered,
                   !.selected_log  =
                       IF IsSome(lv.selected_log) /\ Unwrap(lv.selected_log) < Len(filtered)
                       THEN lv.selected_log
                       ELSE ResetSelection(filtered),
                   !.expanded      = FALSE]

\* LogViewer::update_filter
UpdateFilter(lv) ==
    LET filtered == ComputeFiltered(lv.logs, lv.filter_input)
    IN  [lv EXCEPT !.filtered_logs = filtered,
                   !.selected_log  = ResetSelection(filtered),
                   !.expanded      = FALSE]

\* The event conversion of load_logs: missing fields get their defaults.
BuildEvent(e) ==
    [ timestamp      |-> IF IsSome(e.timestamp) THEN Unwrap(e.timestamp) ELSE 0,
      message        |-> Some(IF IsSome(e.message) THEN Unwrap(e.message) ELSE <<>>),
      ingestion_time |-> IF IsSome(e.ingestion_time) THEN Unwrap(e.ingestion_time) ELSE 0 ]

\* Variant of LoadLogs: the fetched events are not stored
LoadLogsKeepsOld(lv, events) == UpdateFilter(lv)

\* LogViewer::load_logs when every request succeeds; events is the concatenation of
\* the pages' events.
LoadLogs(lv, events) ==
    UpdateFilter([lv EXCEPT !.logs = [i \in 1..Len(events) |-> BuildEvent(events[i])]])

\* LogViewer::initialize when the fetch succeeds
Initialize(lv, events) ==
    LoadLogs([lv EXCEPT !.cloudwatch_client = Some("client")], events)

\* LogViewer::get_selected_log
GetSelectedLog(lv) ==
    IF IsSome(lv.selected_log) /\ Unwrap(lv.selected_log) < Len(lv.filtered_logs)
    THEN Some(lv.filtered_logs[Unwrap(lv.selected_log) + 1])
    ELSE None

\* LogViewer::scroll_up
ScrollUp(lv) ==
    IF lv.expanded
    THEN [lv EXCEPT !.scroll_position = SaturatingSub(lv.scroll_position, 1)]
    ELSE lv

\* LogViewer::scroll_down
ScrollDown(lv) ==
    LET log == GetSelectedLog(lv)
    IN  IF IsSome(log) /\ IsSome(Unwrap(log).message)
        THEN [lv EXCEPT !.scroll_position =
                 Min(SaturatingAdd(lv.scroll_position, 1),
                     SaturatingSub(LineCount(Unwrap(Unwrap(log).message)), 1))]
        ELSE lv

\* toggle_expand, were it to return the list to its top
ToggleExpandResetsList(lv) ==
    [lv EXCEPT !.expanded = ~lv.expanded, !.scroll_offset = 0, !.start_index = 0]

\* LogViewer::toggle_expand
ToggleExpand(lv) ==
    [lv EXCEPT !.expanded = ~lv.expanded, !.scroll_offset = 0]

\* LogViewer::page_up
PageUp(lv) ==
    IF lv.expanded
    THEN [lv EXCEPT !.scroll_position = SaturatingSub(lv.scroll_position, 10)]
    ELSE lv

\* LogViewer::page_down (scroll_position + 10 cannot overflow below MaxScrollPosition)
PageDown(lv) ==
    LET log == GetSelectedLog(lv)
    IN  IF IsSome(log) /\ IsSome(Unwrap(log).message)
        THEN [lv EXCEPT !.scroll_position =
                 Min(lv.scroll_position + 10,
                     SaturatingSub(LineCount(Unwrap(Unwrap(log).message)), 1))]
        ELSE lv

\* get_visible_range, were it never to pin the window to the end of the view
GetVisibleRangeNoPin(lv, visible_height) ==
    LET total_logs == Len(lv.filtered_logs)
        half_height == visible_height \div 2
    IN  IF IsSome(lv.selected_log)
        THEN LET start == SaturatingSub(Unwrap(lv.selected_log), half_height)
             IN  <<start, Min(WrappingAdd(start, visible_height), total_logs)>>
        ELSE <<0, Min(visible_height, total_logs)>>

\* get_visible_range, were half the height rounded up
GetVisibleRangeRoundsUp(lv, visible_height) ==
    LET total_logs == Len(lv.filtered_logs)
        half_height == (visible_height + 1) \div 2
    IN  IF IsSome(lv.selected_log)
        THEN LET selected == Unwrap(lv.selected_log)
                 ideal_start == SaturatingSub(selected, half_height)
                 start == IF WrappingAdd(selected, half_height) >= total_logs
                          THEN SaturatingSub(total_logs, visible_height)
                          ELSE ideal_start
             IN  <<start, Min(WrappingAdd(start, visible_height), total_logs)>>
        ELSE <<0, Min(visible_height, total_logs)>>

\* LogViewer::get_visible_range: (start, end)
GetVisibleRange(lv, visible_height) ==
    LET total_logs == Len(lv.filtered_logs)
        half_height == visible_height \div 2
    IN  IF IsSome(lv.selected_log)
        THEN LET selected == Unwrap(lv.selected_log)
                 ideal_start == SaturatingSub(selected, half_height)
                 start == IF WrappingAdd(selected, half_height) >= total_logs
                          THEN SaturatingSub(total_logs, visible_height)
                          ELSE ideal_start
             IN  <<start, Min(WrappingAdd(start, visible_height), total_logs)>>
        ELSE <<0, Min(visible_height, total_logs)>>

\* Variant of NewIndex: no clamp at the last entry
NewIndexUnclamped(lv, direction) ==
    IF direction > 0
    THEN SaturatingAdd(Unwrap(lv.selected_log), 1)
    ELSE SaturatingSub(Unwrap(lv.selected_log), 1)

\* Variant of NewIndex: the cursor wraps around at both ends
NewIndexWraps(lv, direction) ==
    IF direction > 0
    THEN (Unwrap(lv.selected_log) + 1) % Len(lv.filtered_logs)
    ELSE (Unwrap(lv.selected_log) + Len(lv.filtered_logs) - 1) % Len(lv.filtered_logs)

\* The new_index of move_selection
NewIndex(lv, direction) ==
    IF direction > 0
    THEN Min(SaturatingAdd(Unwrap(lv.selected_log), 1), Len(lv.filtered_logs) - 1)
    ELSE SaturatingSub(Unwrap(lv.selected_log), 1)

\* move_selection's test new_index >= self.start_index + visible_height
BeyondWindow(lv, new_index, visible_height) ==
    new_index >= WrappingAdd(lv.start_index, visible_height)

\* An addition or subtraction of move_selection overflows (a panic when the build
\* checks overflow)
MoveSelectionOverflows(lv, direction, visible_height) ==
    /\ lv.filtered_logs # <<>>
    /\ IsSome(lv.selected_log)
    /\ ~lv.expanded
    /\ \/ AddOverflows(lv.start_index, visible_height)
       \/ /\ BeyondWindow(lv, NewIndex(lv, direction), visible_height)
          /\ SubOverflows(visible_height, 1)

\* LogViewer::move_selection, arithmetic wrapping where it is unchecked
MoveSelection(lv, direction, visible_height) ==
    IF lv.filtered_logs = <<>> THEN lv
    ELSE IF IsNone(lv.selected_log) THEN lv
    ELSE LET new_index == NewIndex(lv, direction)
             moved     == [lv EXCEPT !.selected_log = Some(new_index)]
         IN  IF lv.expanded THEN moved
             ELSE IF BeyondWindow(lv, new_index, visible_height)
                  THEN [moved EXCEPT !.start_index =
                           SaturatingSub(new_index, WrappingSub(visible_height, 1))]
                  ELSE IF new_index < lv.start_index
                       THEN [moved EXCEPT !.start_index = new_index]
                       ELSE moved

----------------------------------------------------------------------------
(* The collaborators' components: profile list, function list, date selection *)

\* ProfileSelection::new over the configured profiles
ProfileSelectionNew(profiles) == [profiles |-> profiles, selected_index |-> 0]

\* The configured profiles: n of them
ConfiguredProfiles(n) == [i \in 1..n |-> [name |-> i, region |-> "region"]]

\* ProfileSelection::selected_profile
SelectedProfile(ps) ==
    IF ps.selected_index < Len(ps.profiles)
    THEN Some(ps.profiles[ps.selected_index + 1])
    ELSE None

\* next() / previous() of a list: one step, saturating at the ends
ListNext(selected_index, len) ==
    IF selected_index + 1 < len THEN selected_index + 1 ELSE selected_index
ListPrevious(selected_index) == SaturatingSub(selected_index, 1)

\* FunctionSelection::new
FunctionSelectionNew(profile) ==
    [ profile            |-> profile,
      functions          |-> <<>>,
      filtered_functions |-> <<>>,
      filter_input       |-> <<>>,
      selected_index     |-> 0 ]

\* The i-th function name the remote side knows
FunctionName(i) == IF i % 2 = 1 THEN <<"a">> ELSE <<"b">>

\* FunctionSelection::update_filter: keyword AND filter over the names, highlight
\* back on the first row
RECURSIVE FilterNames(_, _, _)
FilterNames(names, i, keywords) ==
    IF i > Len(names) THEN <<>>
    ELSE (IF AllKeywordsIn(keywords, 1, ToLowercase(names[i])) THEN <<names[i]>> ELSE <<>>)
         \o FilterNames(names, i + 1, keywords)

FunctionUpdateFilter(fs) ==
    [fs EXCEPT !.filtered_functions =
                   FilterNames(fs.functions, 1, SplitWhitespace(ToLowercase(fs.filter_input))),
               !.selected_index = 0]

\* FunctionSelection::load_functions when the fetch succeeds
LoadFunctions(fs, functions) ==
    FunctionUpdateFilter([fs EXCEPT !.functions = functions])

\* DateSelection::new: the default quick range, ending now (MaxDate)
DateSelectionNew(profile_name, function_name) ==
    [ profile_name     |-> profile_name,
      function_name    |-> function_name,
      from_date        |-> MaxDate - 1,
      to_date          |-> MaxDate,
      custom_selection |-> FALSE ]

\* DateSelection::toggle_custom
ToggleCustom(ds) == [ds EXCEPT !.custom_selection = ~ds.custom_selection]

\* next_quick_range / previous_quick_range: the range of the last k units
QuickRange(ds, k) == [ds EXCEPT !.from_date = MaxDate - k, !.to_date = MaxDate]

\* DateSelection::adjust_current_field on the field the edit cursor is on: one unit
\* up or down, clamped to the field's domain; the other date is not touched
AdjustCurrentField(ds, on_from, increment) ==
    LET step(v) == IF increment THEN Min(v + 1, MaxDate) ELSE Max(v - 1, 0)
    IN  IF on_from THEN [ds EXCEPT !.from_date = step(ds.from_date)]
                   ELSE [ds EXCEPT !.to_date = step(ds.to_date)]

----------------------------------------------------------------------------
(* The remote side *)

Event(ts, msg) ==
    [timestamp |-> Some(ts), message |-> Some(msg), ingestion_time |-> Some(ts)]
EventNoFields == [timestamp |-> None, message |-> None, ingestion_time |-> None]

\* The event lists a log fetch can return
ThreeEvents ==
    << Event(1, <<"A">>), Event(2, <<"b">>), Event(3, <<"a", "\n", "B", "\n", "1">>) >>
TwoEvents == << EventNoFields, Event(2, <<"\n", "1">>) >>
LogFetches == { <<>>, ThreeEvents, TwoEvents }

\* The function lists a function-list fetch can return
FunctionFetches == { <<>>, <<FunctionName(1)>> }

\* What a fetch answers: a failure, or a payload
Failure == [ok |-> FALSE, payload |-> <<>>]
Success(payload) == [ok |-> TRUE, payload |-> payload]
LogResponses == {Failure} \cup {Success(l) : l \in LogFetches}
FunctionResponses == {Failure} \cup {Success(l) : l \in FunctionFetches}

\* Keys that reach the filters
LogFilterChars == {"a", "B", " "}
FunctionFilterChars == {"a", "b"}
\* Terminal heights the size query reports
Heights == 7..MaxHeight
\* How many profiles the configuration can hold
ProfileCounts == {0, 1}

----------------------------------------------------------------------------
(* App and the main loop (src/main.rs) *)

VARIABLES
    state,              \* App.state
    profile_selection,  \* App.profile_selection
    function_selection, \* App.function_selection: Option<FunctionSelection>
    date_selection,     \* App.date_selection: Option<DateSelection>
    log_viewer,         \* App.log_viewer: Option<LogViewer>
    is_loading,         \* App.is_loading
    focused_panel,      \* App.focused_panel
    status,             \* where main is: in the loop, or how it left it
    fetch_result,       \* the answer to the fetch the last handler awaited, if any
    navigation,         \* the transition the last handler made: none, forward, back
    typed_ahead         \* keys typed while main was suspended in a fetch, not yet read

vars == <<state, profile_selection, function_selection, date_selection, log_viewer,
          is_loading, focused_panel, status, fetch_result, navigation, typed_ahead>>

\* App::new, then main enters its loop
Init ==
    /\ state = "ProfileSelection"
    /\ \E n \in ProfileCounts :
           profile_selection = ProfileSelectionNew(ConfiguredProfiles(n))
    /\ function_selection = None
    /\ date_selection = None
    /\ log_viewer = None
    /\ is_loading = FALSE
    /\ focused_panel = "Left"
    /\ status = "running"
    /\ fetch_result = None
    /\ navigation = "none"
    /\ typed_ahead = <<>>

\* Keys typed ahead of the loop
TypeAheadKeys == {"Esc", "q"}

\* event::read() can return `key`: main is in its loop, and the key is the oldest
\* one waiting, or none waits and it is typed now
ReadsKey(key) ==
    /\ status = "running"
    /\ IF typed_ahead = <<>> THEN TRUE ELSE Head(typed_ahead) = key

\* The input buffer once the handler's key is read
AfterRead == IF typed_ahead = <<>> THEN <<>> ELSE Tail(typed_ahead)

\* What no handler writes
AppFlagsUnchanged == UNCHANGED <<is_loading, focused_panel>>

\* main leaves the loop (break, an error returned by `?`, or a panic): the App is
\* dropped with all its components
LeaveLoop(how, response) ==
    /\ status' = how
    /\ fetch_result' = response
    /\ navigation' = "none"
    /\ function_selection' = None
    /\ date_selection' = None
    /\ log_viewer' = None
    /\ AppFlagsUnchanged
    /\ UNCHANGED <<state, profile_selection>>

\* KeyCode::Char('q') => break
Quit == LeaveLoop("quit", None) /\ typed_ahead' = AfterRead

\* The thread panics in a handler
Panic == LeaveLoop("panic", None) /\ typed_ahead' = AfterRead

\* A handler's `?` returns the error of the fetch from main
ExitWithError(response) == LeaveLoop("error", Some(response)) /\ UNCHANGED typed_ahead

\* The handler is suspended in the .await of a fetch: main does not return to the
\* top of its loop (no draw, no event::poll) until the fetch answers
AwaitFetch ==
    /\ status' = "awaiting"
    /\ fetch_result' = None
    /\ navigation' = "none"
    /\ typed_ahead' = AfterRead
    /\ AppFlagsUnchanged
    /\ UNCHANGED <<state, profile_selection, function_selection, date_selection,
                   log_viewer>>

\* A key is typed while main is suspended: it waits in the terminal's input buffer
TypeAhead ==
    /\ status = "awaiting"
    /\ Len(typed_ahead) < MaxTypeAhead
    /\ \E key \in TypeAheadKeys : typed_ahead' = Append(typed_ahead, key)
    /\ AppFlagsUnchanged
    /\ UNCHANGED <<state, profile_selection, function_selection, date_selection,
                   log_viewer, status, fetch_result, navigation>>

(* ProfileSelection handlers, main.rs 139-147 *)

ProfileQuit ==
    /\ ReadsKey("q")
    /\ status = "running" /\ state = "ProfileSelection"
    /\ Quit

ProfilePrevious ==
    /\ ReadsKey("Up")
    /\ status = "running" /\ state = "ProfileSelection"
    /\ profile_selection' =
           [profile_selection EXCEPT !.selected_index = ListPrevious(@)]
    /\ fetch_result' = None
    /\ navigation' = "none"
    /\ typed_ahead' = AfterRead
    /\ AppFlagsUnchanged
    /\ UNCHANGED <<state, function_selection, date_selection, log_viewer, status>>

ProfileNext ==
    /\ ReadsKey("Down")
    /\ status = "running" /\ state = "ProfileSelection"
    /\ profile_selection' =
           [profile_selection EXCEPT
               !.selected_index = ListNext(@, Len(profile_selection.profiles))]
    /\ fetch_result' = None
    /\ navigation' = "none"
    /\ typed_ahead' = AfterRead
    /\ AppFlagsUnchanged
    /\ UNCHANGED <<state, function_selection, date_selection, log_viewer, status>>

\* App::select_profile from the answer `response` of load_functions on, and the `?`
\* of the handler on its result
SelectProfile(response) ==
    LET profile == SelectedProfile(profile_selection)
    IN  IF ~response.ok
        THEN ExitWithError(response)
        ELSE /\ function_selection' =
                    Some(LoadFunctions(FunctionSelectionNew(Unwrap(profile)),
                                       response.payload))
             /\ state' = "FunctionList"
             /\ status' = "running"
             /\ fetch_result' = Some(response)
             /\ navigation' = "forward"
             /\ AppFlagsUnchanged
             /\ UNCHANGED <<profile_selection, date_selection, log_viewer, typed_ahead>>

\* KeyCode::Enter => app.select_profile().await?, up to the .await of load_functions
ProfileEnter ==
    /\ ReadsKey("Enter")
    /\ state = "ProfileSelection"
    /\ IF IsSome(SelectedProfile(profile_selection))
       THEN AwaitFetch
       ELSE /\ fetch_result' = None
            /\ navigation' = "none"
            /\ typed_ahead' = AfterRead
            /\ AppFlagsUnchanged
            /\ UNCHANGED <<state, profile_selection, function_selection,
                           date_selection, log_viewer, status>>

\* load_functions answers and select_profile runs on
FunctionFetchCompletes ==
    /\ status = "awaiting"
    /\ state = "ProfileSelection"
    /\ \E response \in FunctionResponses : SelectProfile(response)

\* A key no arm matches (_ => {}): read and dropped
ProfileOtherKey ==
    /\ ReadsKey("Esc")
    /\ state = "ProfileSelection"
    /\ fetch_result' = None
    /\ navigation' = "none"
    /\ typed_ahead' = AfterRead
    /\ AppFlagsUnchanged
    /\ UNCHANGED <<state, profile_selection, function_selection, date_selection,
                   log_viewer, status>>

(* FunctionList handlers, main.rs 148-182 *)

InFunctionList ==
    status = "running" /\ state = "FunctionList" /\ IsSome(function_selection)

FunctionQuit ==
    /\ ReadsKey("q")
    /\ InFunctionList
    /\ Quit

FunctionEsc ==
    /\ ReadsKey("Esc")
    /\ InFunctionList
    /\ state' = "ProfileSelection"
    /\ function_selection' = None
    /\ fetch_result' = None
    /\ navigation' = "back"
    /\ typed_ahead' = AfterRead
    /\ AppFlagsUnchanged
    /\ UNCHANGED <<profile_selection, date_selection, log_viewer, status>>

\* filtered_functions[selected_index] is in range
SelectedFunctionInRange(fs) == fs.selected_index < Len(fs.filtered_functions)
SelectedFunction(fs) == fs.filtered_functions[fs.selected_index + 1]

\* App::enter_date_selection
EnterDateSelection ==
    IF IsSome(function_selection)
    THEN LET fs == Unwrap(function_selection)
         IN  IF SelectedFunctionInRange(fs)
             THEN /\ date_selection' =
                         Some(DateSelectionNew(fs.profile.name, SelectedFunction(fs)))
                  /\ state' = "DateSelection"
                  /\ fetch_result' = None
                  /\ navigation' = "forward"
                  /\ typed_ahead' = AfterRead
                  /\ AppFlagsUnchanged
                  /\ UNCHANGED <<profile_selection, function_selection, log_viewer,
                                 status>>
             ELSE \* index out of bounds
                  Panic
    ELSE /\ fetch_result' = None
         /\ navigation' = "none"
         /\ typed_ahead' = AfterRead
         /\ AppFlagsUnchanged
         /\ UNCHANGED <<state, profile_selection, function_selection, date_selection,
                        log_viewer, status>>

FunctionEnter ==
    /\ ReadsKey("Enter")
    /\ InFunctionList
    /\ EnterDateSelection

\* The handlers that only rewrite the function list component
FunctionListBecomes(fs) ==
    /\ function_selection' = Some(fs)
    /\ fetch_result' = None
    /\ navigation' = "none"
    /\ typed_ahead' = AfterRead
    /\ AppFlagsUnchanged
    /\ UNCHANGED <<state, profile_selection, date_selection, log_viewer, status>>

FunctionPrevious(fs) == [fs EXCEPT !.selected_index = ListPrevious(@)]
FunctionNext(fs) ==
    [fs EXCEPT !.selected_index = ListNext(@, Len(fs.filtered_functions))]

\* for _ in 0..n { function_selection.previous() } and the same for next()
RECURSIVE PreviousTimes(_, _)
PreviousTimes(fs, n) == IF n = 0 THEN fs ELSE PreviousTimes(FunctionPrevious(fs), n - 1)
RECURSIVE NextTimes(_, _)
NextTimes(fs, n) == IF n = 0 THEN fs ELSE NextTimes(FunctionNext(fs), n - 1)

FunctionUp ==
    /\ ReadsKey("Up")
    /\ InFunctionList
    /\ FunctionListBecomes(FunctionPrevious(Unwrap(function_selection)))

FunctionDown ==
    /\ ReadsKey("Down")
    /\ InFunctionList
    /\ FunctionListBecomes(FunctionNext(Unwrap(function_selection)))

FunctionChar ==
    /\ ReadsKey("Char")
    /\ InFunctionList
    /\ \E c \in FunctionFilterChars :
          /\ Len(Unwrap(function_selection).filter_input) < MaxFnFilterLen
          /\ FunctionListBecomes(FunctionUpdateFilter(
                 [Unwrap(function_selection) EXCEPT !.filter_input = Append(@, c)]))

\* String::pop
Pop(s) == IF s = <<>> THEN s ELSE SubSeq(s, 1, Len(s) - 1)

FunctionBackspace ==
    /\ ReadsKey("Backspace")
    /\ InFunctionList
    /\ FunctionListBecomes(FunctionUpdateFilter(
           [Unwrap(function_selection) EXCEPT !.filter_input = Pop(@)]))

FunctionPageUp ==
    /\ ReadsKey("PageUp")
    /\ InFunctionList
    /\ FunctionListBecomes(PreviousTimes(Unwrap(function_selection), 10))

FunctionPageDown ==
    /\ ReadsKey("PageDown")
    /\ InFunctionList
    /\ FunctionListBecomes(NextTimes(Unwrap(function_selection), 10))

(* DateSelection handlers, main.rs 183-238 *)

InDateSelection ==
    status = "running" /\ state = "DateSelection" /\ IsSome(date_selection)

DateQuit ==
    /\ ReadsKey("q")
    /\ InDateSelection
    /\ Quit

\* Variant of DateEsc: the function list is dropped with the date selection
DateEscDropsFunctions ==
    /\ ReadsKey("Esc")
    /\ InDateSelection
    /\ state' = "FunctionList"
    /\ date_selection' = None
    /\ function_selection' = None
    /\ fetch_result' = None
    /\ navigation' = "back"
    /\ typed_ahead' = AfterRead
    /\ AppFlagsUnchanged
    /\ UNCHANGED <<profile_selection, log_viewer, status>>

\* KeyCode::Esc
DateEsc ==
    /\ ReadsKey("Esc")
    /\ InDateSelection
    /\ state' = "FunctionList"
    /\ date_selection' = None
    /\ fetch_result' = None
    /\ navigation' = "back"
    /\ typed_ahead' = AfterRead
    /\ AppFlagsUnchanged
    /\ UNCHANGED <<profile_selection, function_selection, log_viewer, status>>

\* The handlers that only rewrite the date selection component
DateSelectionBecomes(ds) ==
    /\ date_selection' = Some(ds)
    /\ fetch_result' = None
    /\ navigation' = "none"
    /\ typed_ahead' = AfterRead
    /\ AppFlagsUnchanged
    /\ UNCHANGED <<state, profile_selection, function_selection, log_viewer, status>>

\* KeyCode::Char('c')
DateToggleCustom ==
    /\ ReadsKey("c")
    /\ InDateSelection
    /\ DateSelectionBecomes(ToggleCustom(Unwrap(date_selection)))

\* Left / Right, and Up / Down outside the custom fields: another quick range.
\* (Left / Right inside the custom fields, Tab, '1' and '2' move the edit cursor
\* only; the field it is on is chosen in DateAdjust.)
DateQuickRange ==
    /\ ReadsKey("Arrow")
    /\ InDateSelection
    /\ ~Unwrap(date_selection).custom_selection
    /\ \E k \in 1..MaxDate :
           DateSelectionBecomes(QuickRange(Unwrap(date_selection), k))

\* Up / Down inside the custom fields
DateAdjust ==
    /\ ReadsKey("Arrow")
    /\ InDateSelection
    /\ Unwrap(date_selection).custom_selection
    /\ \E on_from \in BOOLEAN, increment \in BOOLEAN :
           DateSelectionBecomes(
               AdjustCurrentField(Unwrap(date_selection), on_from, increment))

\* App::enter_log_viewer from the answer `response` of the log fetch on, and the `?`
\* of the handler on its result
EnterLogViewer(response) ==
    LET fs == Unwrap(function_selection)
        ds == Unwrap(date_selection)
    IN  IF ~response.ok
        THEN ExitWithError(response)
        ELSE /\ log_viewer' =
                    Some(Initialize(
                        LogViewerNew(SelectedFunction(fs), ds.from_date, ds.to_date),
                        response.payload))
             /\ state' = "LogViewer"
             /\ status' = "running"
             /\ fetch_result' = Some(response)
             /\ navigation' = "forward"
             /\ AppFlagsUnchanged
             /\ UNCHANGED <<profile_selection, function_selection, date_selection,
                            typed_ahead>>

\* KeyCode::Enter => app.enter_log_viewer().await?, up to the .await of initialize
DateEnter ==
    /\ ReadsKey("Enter")
    /\ InDateSelection
    /\ IF IsSome(function_selection) /\ IsSome(date_selection)
       THEN IF SelectedFunctionInRange(Unwrap(function_selection))
            THEN AwaitFetch
            ELSE \* index out of bounds
                 Panic
       ELSE /\ fetch_result' = None
            /\ navigation' = "none"
            /\ typed_ahead' = AfterRead
            /\ AppFlagsUnchanged
            /\ UNCHANGED <<state, profile_selection, function_selection,
                           date_selection, log_viewer, status>>

\* The log fetch answers and enter_log_viewer runs on
LogFetchCompletes ==
    /\ status = "awaiting"
    /\ state = "DateSelection"
    /\ \E response \in LogResponses : EnterLogViewer(response)

(* LogViewer handlers, main.rs 239-305 *)

InLogViewer ==
    status = "running" /\ state = "LogViewer" /\ IsSome(log_viewer)

LogQuit ==
    /\ ReadsKey("q")
    /\ InLogViewer
    /\ Quit

\* Variant of LogEsc: the log viewer is not dropped
LogEscKeepsViewer ==
    /\ ReadsKey("Esc")
    /\ InLogViewer
    /\ state' = "DateSelection"
    /\ fetch_result' = None
    /\ navigation' = "back"
    /\ typed_ahead' = AfterRead
    /\ AppFlagsUnchanged
    /\ UNCHANGED <<profile_selection, function_selection, date_selection, status,
                   log_viewer>>

LogEsc ==
    /\ ReadsKey("Esc")
    /\ InLogViewer
    /\ state' = "DateSelection"
    /\ log_viewer' = None
    /\ fetch_result' = None
    /\ navigation' = "back"
    /\ typed_ahead' = AfterRead
    /\ AppFlagsUnchanged
    /\ UNCHANGED <<profile_selection, function_selection, date_selection, status>>

\* The handlers that only rewrite the log viewer component
LogViewerBecomes(lv) ==
    /\ log_viewer' = Some(lv)
    /\ fetch_result' = None
    /\ navigation' = "none"
    /\ typed_ahead' = AfterRead
    /\ AppFlagsUnchanged
    /\ UNCHANGED <<state, profile_selection, function_selection, date_selection, status>>

\* The subtraction height as usize - 8, or an operation of the move_selection it
\* feeds, overflows on a terminal of `height` rows
MoveSelectionKeyOverflows(direction, height) ==
    \/ SubOverflows(height, 8)
    \/ MoveSelectionOverflows(Unwrap(log_viewer), direction, WrappingSub(height, 8))

\* log_viewer.move_selection(direction, terminal.size().unwrap().height as usize - 8)
\* on a terminal of `height` rows.  An overflow panics in a build with overflow
\* checks and wraps in a build without; without overflow both builds agree.
MoveSelectionKey(direction, height) ==
    \/ /\ MoveSelectionKeyOverflows(direction, height)
       /\ Panic
    \/ LogViewerBecomes(
           MoveSelection(Unwrap(log_viewer), direction, WrappingSub(height, 8)))

\* KeyCode::Up on a terminal of `height` rows
LogUpAt(height) ==
    /\ ReadsKey("Up")
    /\ InLogViewer
    /\ IF Unwrap(log_viewer).expanded
       THEN LogViewerBecomes(ScrollUp(Unwrap(log_viewer)))
       ELSE MoveSelectionKey(-1, height)

\* KeyCode::Up
LogUp == \E height \in Heights : LogUpAt(height)

\* KeyCode::Down on a terminal of `height` rows.  In expand mode the handler computes height as usize - 8 (for a
\* value it does not use) before scroll_down when an entry is selected.
LogDownAt(height) ==
    /\ ReadsKey("Down")
    /\ InLogViewer
    /\ IF Unwrap(log_viewer).expanded
       THEN IF IsSome(GetSelectedLog(Unwrap(log_viewer)))
            THEN \/ /\ SubOverflows(height, 8)
                    /\ Panic
                 \/ LogViewerBecomes(ScrollDown(Unwrap(log_viewer)))
            ELSE LogViewerBecomes(Unwrap(log_viewer))
       ELSE MoveSelectionKey(1, height)

\* KeyCode::Down
LogDown == \E height \in Heights : LogDownAt(height)

\* Variant of EnterKey: the content offset is not reset
EnterKeyNoReset(lv) == ToggleExpand(lv)

\* The Enter handler on the viewer: toggle_expand, then scroll_position = 0
EnterKey(lv) == [ToggleExpand(lv) EXCEPT !.scroll_position = 0]

\* KeyCode::Enter
LogEnter ==
    /\ ReadsKey("Enter")
    /\ InLogViewer
    /\ LogViewerBecomes(EnterKey(Unwrap(log_viewer)))

\* KeyCode::Char(c) if !log_viewer.expanded
LogChar ==
    /\ ReadsKey("Char")
    /\ InLogViewer
    /\ ~Unwrap(log_viewer).expanded
    /\ \E c \in LogFilterChars :
          /\ Len(Unwrap(log_viewer).filter_input) < MaxFilterLen
          /\ LogViewerBecomes(UpdateFilter(
                 [Unwrap(log_viewer) EXCEPT !.filter_input = Append(@, c)]))

\* Variant of LogBackspace: the filter text loses its last character and the
\* filtered view is not recomputed
LogBackspaceNoRecompute ==
    /\ ReadsKey("Backspace")
    /\ InLogViewer
    /\ ~Unwrap(log_viewer).expanded
    /\ LogViewerBecomes([Unwrap(log_viewer) EXCEPT !.filter_input = Pop(@)])

\* KeyCode::Backspace if !log_viewer.expanded
LogBackspace ==
    /\ ReadsKey("Backspace")
    /\ InLogViewer
    /\ ~Unwrap(log_viewer).expanded
    /\ LogViewerBecomes(UpdateFilter(
           [Unwrap(log_viewer) EXCEPT !.filter_input = Pop(@)]))

\* KeyCode::PageUp
LogPageUp ==
    /\ ReadsKey("PageUp")
    /\ InLogViewer
    /\ LET lv == Unwrap(log_viewer)
       IN  IF lv.expanded
           THEN LogViewerBecomes(
                    [lv EXCEPT !.scroll_position = SaturatingSub(lv.scroll_position, 10)])
           ELSE LogViewerBecomes(PageUp(lv))

\* KeyCode::PageDown
LogPageDown ==
    /\ ReadsKey("PageDown")
    /\ InLogViewer
    /\ LET lv == Unwrap(log_viewer)
       IN  IF lv.expanded
           THEN /\ lv.scroll_position + 10 <= MaxScrollPosition
                /\ LogViewerBecomes(
                       [lv EXCEPT !.scroll_position = SaturatingAdd(lv.scroll_position, 10)])
           ELSE LogViewerBecomes(PageDown(lv))

----------------------------------------------------------------------------

\* The steps that do not read the terminal's size
StepAtAnyHeight ==
    \/ ProfileQuit \/ ProfilePrevious \/ ProfileNext \/ ProfileEnter
    \/ ProfileOtherKey \/ FunctionFetchCompletes \/ LogFetchCompletes \/ TypeAhead
    \/ FunctionQuit \/ FunctionEsc \/ FunctionEnter \/ FunctionUp \/ FunctionDown
    \/ FunctionChar \/ FunctionBackspace \/ FunctionPageUp \/ FunctionPageDown
    \/ DateQuit \/ DateEsc \/ DateToggleCustom \/ DateQuickRange \/ DateAdjust
    \/ DateEnter
    \/ LogQuit \/ LogEsc \/ LogEnter \/ LogChar \/ LogBackspace
    \/ LogPageUp \/ LogPageDown

Next == StepAtAnyHeight \/ LogUp \/ LogDown

Spec == Init /\ [][Next]_vars

\* A first visit to the log viewer under way: one profile, one function, the default
\* range, three entries fetched, a key already handled
RevisitStart ==
    /\ state = "LogViewer"
    /\ profile_selection = ProfileSelectionNew(ConfiguredProfiles(1))
    /\ function_selection =
           Some(LoadFunctions(FunctionSelectionNew(ConfiguredProfiles(1)[1]),
                              <<FunctionName(1)>>))
    /\ date_selection = Some(DateSelectionNew(1, FunctionName(1)))
    /\ log_viewer =
           Some(Initialize(LogViewerNew(FunctionName(1), MaxDate - 1, MaxDate),
                           ThreeEvents))
    /\ is_loading = FALSE
    /\ focused_panel = "Left"
    /\ status = "running"
    /\ fetch_result = None
    /\ navigation = "none"
    /\ typed_ahead = <<>>

\* The runs from a first visit on: every later entry into the log viewer is a
\* re-entry
SpecRevisit == RevisitStart /\ [][Next]_vars

\* The steps on a terminal that stays FixedHeight rows high
NextFixedHeight == StepAtAnyHeight \/ LogUpAt(FixedHeight) \/ LogDownAt(FixedHeight)

\* The runs on a terminal that is never resized
SpecFixedHeight == Init /\ [][NextFixedHeight]_vars

----------------------------------------------------------------------------
(* Properties of the log browser *)

\* The log viewer, where there is one
Viewer == Unwrap(log_viewer)

\* The keywords of a filter text: the maximal whitespace-free runs of its lowercase
KeywordsOf(t) ==
    LET tl == ToLowercase(t)
    IN  { SubSeq(tl, i, j) : <<i, j>> \in
            { <<i, j>> \in (1..Len(tl)) \X (1..Len(tl)) :
                /\ i <= j
                /\ \A k \in i..j : ~IsWhitespace(tl[k])
                /\ (i = 1 \/ IsWhitespace(tl[i - 1]))
                /\ (j = Len(tl) \/ IsWhitespace(tl[j + 1])) } }

\* k occurs in m as a substring
IsSubstring(k, m) ==
    \E i \in 1..(Len(m) - Len(k) + 1) : SubSeq(m, i, i + Len(k) - 1) = k

\* The entry's lowercased message contains every keyword of t
Retained(entry, t) ==
    \A k \in KeywordsOf(t) : IsSubstring(k, ToLowercase(Unwrap(entry.message)))

\* C1: the filtered view is the order-preserving subsequence of the log collection
\* made of the entries whose lowercased message contains every whitespace-separated
\* lowercased keyword of the filter text; with an empty filter text it is the whole
\* collection.
C1_FilteredView ==
    IsSome(log_viewer) =>
        /\ Viewer.filtered_logs =
               SelectSeq(Viewer.logs, LAMBDA e : Retained(e, Viewer.filter_input))
        /\ (Viewer.filter_input = <<>> => Viewer.filtered_logs = Viewer.logs)

\* Two keywords typed: of three entries only the last, which holds both, is kept
C1_Witness ==
    /\ IsSome(log_viewer)
    /\ Viewer.filter_input = <<"a", " ", "B">>
    /\ Len(Viewer.logs) = 3
    /\ Viewer.filtered_logs = <<Viewer.logs[3]>>

\* The cursor of lv is None iff its view is empty, and is an index of the view otherwise
CursorConsistent(lv) ==
    /\ IsNone(lv.selected_log) <=> lv.filtered_logs = <<>>
    /\ IsSome(lv.selected_log) =>
           (0 <= Unwrap(lv.selected_log)
               /\ Unwrap(lv.selected_log) < Len(lv.filtered_logs))

\* C2: in every reachable state the selection cursor is None iff the filtered view
\* is empty, and otherwise 0 <= cursor < len(filtered view); a viewer as constructed
\* satisfies it too.
C2_CursorInvariant ==
    /\ IsSome(log_viewer) => CursorConsistent(Viewer)
    /\ IsSome(date_selection) =>
           CursorConsistent(LogViewerNew(Unwrap(date_selection).function_name,
                                         Unwrap(date_selection).from_date,
                                         Unwrap(date_selection).to_date))

\* The cursor has been moved to the last of three entries
C2_Witness ==
    /\ IsSome(log_viewer)
    /\ Len(Viewer.filtered_logs) = 3
    /\ Viewer.selected_log = Some(2)

\* What a filter recomputation leaves of cursor and expand mode
AfterRecompute(lv) ==
    /\ lv.selected_log = (IF lv.filtered_logs = <<>> THEN None ELSE Some(0))
    /\ ~lv.expanded

\* A step that recomputes the filter: a filter keystroke, or a completed log fetch
RecomputeStep ==
    \/ LogChar
    \/ LogBackspace
    \/ (LogFetchCompletes /\ state' = "LogViewer")

\* C3: immediately after every filter recomputation the cursor is Some(0) when the
\* new filtered view is non-empty and None when it is empty, and expand mode is off:
\* on every step that recomputes, and for update_filter applied to any reachable
\* viewer (expanded or not, cursor anywhere) with any next filter text.
C3_RecomputeResets ==
    /\ [][RecomputeStep => AfterRecompute(Unwrap(log_viewer'))]_vars
    /\ [](IsSome(log_viewer) =>
            /\ AfterRecompute(UpdateFilter(Viewer))
            /\ \A c \in LogFilterChars :
                   AfterRecompute(UpdateFilter(
                       [Viewer EXCEPT !.filter_input = Append(@, c)])))

\* The filter "a" keeps two of three entries and the cursor is on the first
C3_Witness ==
    /\ IsSome(log_viewer)
    /\ Viewer.filter_input = <<"a">>
    /\ Len(Viewer.logs) = 3
    /\ Len(Viewer.filtered_logs) = 2
    /\ Viewer.selected_log = Some(0)
    /\ ~Viewer.expanded

\* The visible heights move_selection is called with
VisibleHeights == {WrappingSub(h, 8) : h \in Heights}

\* move_selection on lv: the cursor stays an index of the view, an empty view is
\* left as it is, and at either end the cursor stays where it is
MoveSelectionBounded(lv, direction, visible_height) ==
    LET after == MoveSelection(lv, direction, visible_height)
    IN  /\ CursorConsistent(after)
        /\ lv.filtered_logs = <<>> => after = lv
        /\ (direction > 0 /\ lv.selected_log = Some(Len(lv.filtered_logs) - 1))
               => after.selected_log = lv.selected_log
        /\ (direction < 0 /\ lv.selected_log = Some(0))
               => after.selected_log = lv.selected_log

\* C4: move_selection never produces a cursor outside [0, len - 1], is a no-op on an
\* empty filtered view, and at both boundaries keeps the cursor where it is (down
\* from the last element stays on the last, up from index 0 stays on 0): for the
\* handlers' steps, and for move_selection applied to any reachable viewer.
C4_MoveSelection ==
    /\ [][(InLogViewer /\ ~Viewer.expanded /\ (LogUp \/ LogDown) /\ status' = "running") =>
             /\ CursorConsistent(Unwrap(log_viewer'))
             /\ Viewer.filtered_logs = <<>> => log_viewer' = log_viewer
             /\ (LogDown /\ Viewer.selected_log = Some(Len(Viewer.filtered_logs) - 1))
                    => Unwrap(log_viewer').selected_log = Viewer.selected_log
             /\ (LogUp /\ Viewer.selected_log = Some(0))
                    => Unwrap(log_viewer').selected_log = Viewer.selected_log]_vars
    /\ [](IsSome(log_viewer) =>
            \A direction \in {-1, 1}, visible_height \in VisibleHeights :
                MoveSelectionBounded(Viewer, direction, visible_height))

\* The cursor has moved down, off the first row, to the last of several entries, in
\* the collapsed view
C4_Witness ==
    /\ IsSome(log_viewer)
    /\ ~Viewer.expanded
    /\ Len(Viewer.filtered_logs) >= 2
    /\ Viewer.selected_log = Some(Len(Viewer.filtered_logs) - 1)
    /\ Viewer.start_index > 0

\* C5: after any sequence of scroll and page operations the content offset is at
\* most max(0, lineCount(selected entry) - 1).
C5_ContentOffsetBounded ==
    (IsSome(log_viewer) /\ IsSome(GetSelectedLog(Viewer))) =>
        Viewer.scroll_position <=
            Max(0, LineCount(Unwrap(Unwrap(GetSelectedLog(Viewer)).message)) - 1)

\* C6: toggling expand mode twice returns the expand flag to its original value, and
\* the content offset is 0 after each of the two toggles: for the Enter handler
\* applied twice to any reachable viewer, and on every Enter step.
C6_ToggleTwice ==
    /\ [](IsSome(log_viewer) =>
            LET once  == EnterKey(Viewer)
                twice == EnterKey(once)
            IN  /\ once.expanded = ~Viewer.expanded
                /\ twice.expanded = Viewer.expanded
                /\ once.scroll_position = 0
                /\ twice.scroll_position = 0)
    /\ [][LogEnter =>
             /\ Unwrap(log_viewer').expanded = ~Viewer.expanded
             /\ Unwrap(log_viewer').scroll_position = 0]_vars

\* An expanded entry (one toggle done) scrolled off its first line
C6_Witness ==
    /\ IsSome(log_viewer)
    /\ Viewer.expanded
    /\ Viewer.scroll_position > 0

----------------------------------------------------------------------------
(* Properties of the navigation *)

\* The last handler awaited a fetch that failed
FetchFailed(result) == IsSome(result) /\ ~Unwrap(result).ok

\* C7: when a fetch started by a forward transition fails, the state does not
\* advance, the components are unchanged, and the controller stays active.
C7_FetchFailureStays ==
    [][FetchFailed(fetch_result') =>
          /\ state' = state
          /\ UNCHANGED <<profile_selection, function_selection, date_selection,
                         log_viewer>>
          /\ status' = "running"]_vars

\* C8: on confirm in DateSelection with from > to the controller stays in
\* DateSelection, starts no log fetch and creates no log browser.
C8_InvalidRangeBlocked ==
    [][(InDateSelection
          /\ Unwrap(date_selection).from_date > Unwrap(date_selection).to_date) =>
          /\ status' # "awaiting"
          /\ state' # "LogViewer"
          /\ IsNone(log_viewer')]_vars

\* The message load_logs stores for a fetched event
StoredMessage(e) == IF IsSome(e.message) THEN Unwrap(e.message) ELSE <<>>

\* lv is a viewer just built on the fetched events
FreshViewer(lv, events) ==
    /\ Len(lv.logs) = Len(events)
    /\ \A i \in 1..Len(events) : lv.logs[i].message = Some(StoredMessage(events[i]))
    /\ lv.filtered_logs = lv.logs
    /\ lv.filter_input = <<>>
    /\ ~lv.expanded
    /\ lv.scroll_position = 0
    /\ lv.scroll_offset = 0
    /\ lv.start_index = 0

\* C9: every entry into LogViewer is made from DateSelection by a handler that
\* awaited a log fetch, and builds a new log browser (empty filter text, collapsed,
\* offsets 0) on the events of that fetch; a visit never changes its log collection.
C9_FreshFetchOnEntry ==
    [][/\ (state' = "LogViewer" /\ state # "LogViewer") =>
             /\ state = "DateSelection"
             /\ IsSome(fetch_result') /\ Unwrap(fetch_result').ok
             /\ FreshViewer(Unwrap(log_viewer'), Unwrap(fetch_result').payload)
       /\ (state' = "LogViewer" /\ state = "LogViewer" /\ IsSome(log_viewer')) =>
             Unwrap(log_viewer').logs = Viewer.logs]_vars

\* Back in the log viewer after a first visit that had three entries, on the two
\* events of the new fetch
C9_Witness ==
    /\ state = "LogViewer"
    /\ navigation = "forward"
    /\ IsSome(fetch_result)
    /\ Unwrap(fetch_result).payload = TwoEvents
    /\ Len(Viewer.logs) = 2

\* C10: in every reachable state no component of a later screen exists.
C10_NoLaterComponent ==
    /\ state = "ProfileSelection" =>
           (IsNone(function_selection) /\ IsNone(date_selection) /\ IsNone(log_viewer))
    /\ state = "FunctionList" => (IsNone(date_selection) /\ IsNone(log_viewer))
    /\ state = "DateSelection" => IsNone(log_viewer)

\* Just back from the log viewer: in DateSelection, the log browser gone
C10_Witness ==
    /\ navigation = "back"
    /\ state = "DateSelection"
    /\ IsNone(log_viewer)

-----------------------------------------------------------------------------
(* Properties of a fetch in flight *)

\* A key handler of the initiating state can run
HandlesInput == ENABLED (ProfileQuit \/ DateQuit)

\* C11: while a fetch is outstanding is_loading is true and the main loop goes on
\* rendering and handling input events before the fetch completes.
C11_ResponsiveWhileLoading ==
    status = "awaiting" => (is_loading /\ HandlesInput)

\* The user pressed Esc while the fetch was outstanding
BackPressed == typed_ahead # <<>> /\ Head(typed_ahead) = "Esc"

\* C12: when the user navigates backward while a fetch is outstanding, the result of
\* the fetch installs no function list and no log browser and changes no state.
\* (Esc navigates backward from DateSelection, the state that starts the log fetch;
\* no key navigates backward from ProfileSelection.)
C12_StaleResultDiscarded ==
    [][(LogFetchCompletes /\ BackPressed /\ status' = "running") =>
          /\ state' = state
          /\ UNCHANGED <<function_selection, log_viewer>>]_vars

-----------------------------------------------------------------------------
(* Properties of the expand toggle *)

\* The cursor, the list offset, the filter text, the collection and the filtered view
ListPart(lv) ==
    <<lv.selected_log, lv.start_index, lv.filter_input, lv.logs, lv.filtered_logs>>

\* C13: the expand toggle flips the expand flag and leaves the selection cursor, the
\* list offset, the filter text and the filtered view unchanged.
C13_ToggleFrame ==
    [][LogEnter =>
          /\ Unwrap(log_viewer').expanded = ~Viewer.expanded
          /\ ListPart(Unwrap(log_viewer')) = ListPart(Viewer)]_vars

\* A filtered, scrolled list has been expanded
C13_Witness ==
    /\ IsSome(log_viewer)
    /\ Viewer.expanded
    /\ Viewer.start_index > 0
    /\ Viewer.filter_input # <<>>
    /\ Viewer.selected_log = Some(Viewer.start_index)

-----------------------------------------------------------------------------
(* Properties of the list offset *)

\* The list offset the follow policy asks for once the cursor is at n
FollowOffset(lv, n, h) ==
    IF lv.expanded THEN lv.start_index
    ELSE IF n >= lv.start_index + h THEN n - (h - 1)
    ELSE IF n < lv.start_index THEN n
    ELSE lv.start_index

\* move_selection on lv with height h returns and leaves the list offset where the
\* follow policy puts it
FollowsCursor(lv, direction, h) ==
    (lv.filtered_logs # <<>> /\ IsSome(lv.selected_log)) =>
        LET after == MoveSelection(lv, direction, h)
        IN  /\ ~MoveSelectionOverflows(lv, direction, h)
            /\ after.start_index = FollowOffset(lv, Unwrap(after.selected_log), h)

\* C14: after move_selection with new cursor n and visible height h >= 1 the list
\* offset is n - (h - 1) if n >= listOffset + h, n if n < listOffset, and unchanged
\* otherwise; in expand mode it is unchanged.
C14_OffsetFollowsCursor ==
    IsSome(log_viewer) =>
        \A direction \in {-1, 1}, h \in VisibleHeights \ {0} :
            FollowsCursor(Viewer, direction, h)

-----------------------------------------------------------------------------
(* Properties of get_visible_range *)

\* The viewport heights asked about
RangeHeights == (0..MaxRangeHeight) \cup VisibleHeights

\* Where the window starts: h \div 2 rows above the selected index, moved to 0 if
\* that is before the first entry, and to the last h entries if it passes the end
WindowStart(selected, len, h) ==
    LET centred == selected - (h \div 2)
        clamped == Max(centred, 0)
    IN  IF clamped + h > len THEN Max(len - h, 0) ELSE clamped

\* get_visible_range(h) on lv is a window of the view, centred and clamped, and the
\* whole view when the view is no longer than h
RangeAsSpecified(lv, h) ==
    LET range == GetVisibleRange(lv, h)
        start == range[1]
        end   == range[2]
        len   == Len(lv.filtered_logs)
    IN  /\ 0 <= start /\ start <= end /\ end <= len
        /\ IsSome(lv.selected_log) =>
               start = WindowStart(Unwrap(lv.selected_log), len, h)
        /\ len <= h => range = <<0, len>>

\* C15: get_visible_range(h) returns (start, end) with 0 <= start <= end <= len; the
\* selected index is h/2 rows below start unless the window would start before 0
\* (start = 0) or pass the end (the last h entries); len <= h gives (0, len).
C15_VisibleRange ==
    IsSome(log_viewer) => \A h \in RangeHeights : RangeAsSpecified(Viewer, h)

\* The cursor is on the last of three entries: a window of three is pinned to the
\* end, a window of two is centred
C15_Witness ==
    /\ IsSome(log_viewer)
    /\ Len(Viewer.filtered_logs) = 3
    /\ Viewer.selected_log = Some(2)
    /\ GetVisibleRange(Viewer, 3) = <<0, 3>>
    /\ GetVisibleRange(Viewer, 2) = <<1, 3>>

-----------------------------------------------------------------------------
(* Properties of the content scroll *)

\* C16: outside expand mode scroll_up, scroll_down, page_up and page_down, and the
\* PageUp and PageDown keys that reach them, leave scroll_position unchanged.
C16_ScrollNoOpCollapsed ==
    /\ [][(InLogViewer /\ ~Viewer.expanded /\ (LogPageUp \/ LogPageDown)) =>
             Unwrap(log_viewer').scroll_position = Viewer.scroll_position]_vars
    /\ []((IsSome(log_viewer) /\ ~Viewer.expanded) =>
             /\ ScrollUp(Viewer).scroll_position = Viewer.scroll_position
             /\ ScrollDown(Viewer).scroll_position = Viewer.scroll_position
             /\ PageUp(Viewer).scroll_position = Viewer.scroll_position
             /\ PageDown(Viewer).scroll_position = Viewer.scroll_position)

-----------------------------------------------------------------------------
(* Properties of what the renderer sees *)

\* terminal.draw at the top of the loop draws the log view
RendersLogView == status = "running" /\ state = "LogViewer" /\ IsSome(log_viewer)

\* C17: at every render point in LogViewer the filtered view is the filter of the
\* log collection by the current filter text; when the filter text or the collection
\* differs from what the last render saw, or the viewer is rendered for the first
\* time, the view and the selection have been recomputed.
C17_RenderSeesRecomputed ==
    /\ [](RendersLogView =>
             /\ Viewer.filtered_logs =
                    SelectSeq(Viewer.logs, LAMBDA e : Retained(e, Viewer.filter_input))
             /\ CursorConsistent(Viewer))
    /\ [][(RendersLogView'
             /\ \/ ~RendersLogView
                \/ Unwrap(log_viewer').filter_input # Viewer.filter_input
                \/ Unwrap(log_viewer').logs # Viewer.logs) =>
             AfterRecompute(Unwrap(log_viewer'))]_vars

\* A render after a keystroke narrowed the view of three entries to two
C17_Witness ==
    /\ RendersLogView
    /\ Len(Viewer.logs) = 3
    /\ Len(Viewer.filter_input) = 1
    /\ Len(Viewer.filtered_logs) = 2
    /\ Viewer.selected_log = Some(0)

-----------------------------------------------------------------------------
(* Properties of the components *)

\* The program has not left main's loop
InLoop == status \in {"running", "awaiting"}

\* The components of the current screen and of the screens before it exist
ComponentsExist ==
    /\ state \in {"FunctionList", "DateSelection", "LogViewer"} =>
           IsSome(function_selection)
    /\ state \in {"DateSelection", "LogViewer"} => IsSome(date_selection)
    /\ state = "LogViewer" => IsSome(log_viewer)

\* The arm of the current state that handles the quit key
QuitKey == ProfileQuit \/ FunctionQuit \/ DateQuit \/ LogQuit

\* C18: in every reachable state of the loop the component of the current screen and
\* of every earlier screen exists, so the render-time unwrap of the date selection
\* does not fail, and wherever the loop reads the quit key an arm handles it and
\* ends the loop.
C18_ComponentsExist ==
    /\ [](InLoop => ComponentsExist)
    /\ []((status = "running" /\ (typed_ahead = <<>> \/ Head(typed_ahead) = "q")) =>
             ENABLED QuitKey)
    /\ [][QuitKey => status' = "quit"]_vars

\* The log view is drawn with its three components in place
C18_Witness ==
    /\ status = "running"
    /\ state = "LogViewer"
    /\ IsSome(function_selection)
    /\ IsSome(date_selection)
    /\ IsSome(log_viewer)
    /\ navigation = "forward"

-----------------------------------------------------------------------------
(* Properties of confirm in FunctionList *)

\* C19: confirm in FunctionList with an empty filtered function list leaves the state
\* at FunctionList and does not fail on an out-of-range index; with a function
\* highlighted it advances to DateSelection.
C19_ConfirmNeedsFunction ==
    [][FunctionEnter =>
          IF Unwrap(function_selection).filtered_functions = <<>>
          THEN status' = "running" /\ state' = "FunctionList"
          ELSE status' = "running" /\ state' = "DateSelection"]_vars

-----------------------------------------------------------------------------
(* Properties of the list-scroll arithmetic *)

\* C20: for every terminal height, 8 rows or fewer included, `height - 8` in the Up
\* and Down handlers and `visible_height - 1` in move_selection do not underflow, and
\* the selection movement completes with cursor and list offset in range.
C20_NoUnderflow ==
    /\ [][(LogUp \/ LogDown) =>
             /\ status' = "running"
             /\ CursorConsistent(Unwrap(log_viewer'))
             /\ Unwrap(log_viewer').start_index <= Len(Unwrap(log_viewer').filtered_logs)]_vars
    /\ []((InLogViewer /\ ~Viewer.expanded) =>
             \A direction \in {-1, 1}, height \in Heights :
                 ~MoveSelectionKeyOverflows(direction, height))

-----------------------------------------------------------------------------
(* Properties of the follow window *)

\* The cursor, when there is one, is one of the h rows from the list offset on
InFollowWindow(lv, h) ==
    IsSome(lv.selected_log) =>
        /\ lv.start_index <= Unwrap(lv.selected_log)
        /\ Unwrap(lv.selected_log) < lv.start_index + h

\* C21: in collapsed mode, after every log-viewer key event on a terminal of fixed
\* visible height h >= 1, start_index <= selected < start_index + h; a filter edit
\* that resets the cursor to 0 does not leave start_index above the cursor.
C21_CursorInFollowWindow ==
    (RendersLogView /\ ~Viewer.expanded) =>
        InFollowWindow(Viewer, WrappingSub(FixedHeight, 8))

-----------------------------------------------------------------------------
(* Properties of the window of get_visible_range *)

\* get_visible_range(h) on lv holds the selected index and has min(h, len) rows
WindowHoldsSelected(lv, h) ==
    LET range == GetVisibleRange(lv, h)
        selected == Unwrap(lv.selected_log)
    IN  /\ range[1] <= selected
        /\ selected < range[2]
        /\ range[2] - range[1] = Min(h, Len(lv.filtered_logs))

\* C22: for every non-empty filtered view, in-range selected index and height
\* h >= 1, even or odd, get_visible_range returns (start, end) with
\* start <= selected < end and end - start = min(h, len).
C22_WindowHoldsSelected ==
    (IsSome(log_viewer) /\ Viewer.filtered_logs # <<>> /\ IsSome(Viewer.selected_log)) =>
        \A h \in RangeHeights \ {0} : WindowHoldsSelected(Viewer, h)

\* The cursor is on the middle of three entries: a window of one row is that row, a
\* window of two rows starts one above it
C22_Witness ==
    /\ IsSome(log_viewer)
    /\ Len(Viewer.filtered_logs) = 3
    /\ Viewer.selected_log = Some(1)
    /\ GetVisibleRange(Viewer, 1) = <<1, 2>>
    /\ GetVisibleRange(Viewer, 2) = <<0, 2>>

-----------------------------------------------------------------------------
(* Properties of expand mode *)

\* The cursor, the filter text and the filtered view
ExpandedEntry(lv) == <<lv.selected_log, lv.filter_input, lv.filtered_logs>>

\* A key other than Enter, Esc and q is handled in the log viewer
ScrollOrFilterKey ==
    LogUp \/ LogDown \/ LogPageUp \/ LogPageDown \/ LogChar \/ LogBackspace

\* C23: while expand mode is on, Up, Down, PageUp and PageDown change only the
\* content offset and character and backspace input is ignored: the viewer stays
\* expanded on the same entry, with the same filter text and filtered view.
C23_ExpandFreezes ==
    [][(InLogViewer /\ Viewer.expanded /\ ScrollOrFilterKey) =>
          /\ IsSome(log_viewer')
          /\ Unwrap(log_viewer').expanded
          /\ ExpandedEntry(Unwrap(log_viewer')) = ExpandedEntry(Viewer)]_vars

====
